---- MODULE Spec2Model ----
(***************************************************************************)
(* extract1kgBAM.py: extraction of genomic regions from BAM files with an  *)
(* external tool (samtools), one merged BAM per input file.                *)
(*                                                                         *)
(* Strings (paths, file texts) are sequences of one-character strings, so  *)
(* that basename, rstrip, join and line splitting are computed the way     *)
(* Python computes them.  The disk (directories, BAM artifacts, text       *)
(* files, log files) outlives a program run; the processes do not.         *)
(***************************************************************************)
EXTENDS Integers, Sequences, FiniteSets, TLC

\* ------------------------------------------------------------------ bounds
\* program runs on the same disk (a run, then re-runs)
MaxRuns == 2
\* saturation of the counters that observe external tool invocations
MaxCount == 2
\* transient failures of the environment over all runs: an attempt of the
\* extraction tool that fails for a region the tool does not reject, a
\* directory that cannot be created, a target file that cannot be opened
MaxFaults == 1

\* ------------------------------------------------------------ string helpers
None == <<"None">>

\* F(x) with x evaluated once (a local variable holding a value)
With(x, F(_)) == CHOOSE r \in {F(v) : v \in {x}} : TRUE

\* the characters str.rstrip() strips, those for which str.isspace() holds.
\* A text is a sequence of characters; a character outside printable ASCII
\* that has no escape is written by its code point, as in "U+2003"
Whitespace ==
    {" ", "\t", "\n", "\r", "\f",
     "U+000B", "U+001C", "U+001D", "U+001E", "U+001F", "U+0085",
     "U+00A0", "U+1680", "U+2000", "U+2001", "U+2002", "U+2003",
     "U+2004", "U+2005", "U+2006", "U+2007", "U+2008", "U+2009",
     "U+200A", "U+2028", "U+2029", "U+202F", "U+205F", "U+3000"}

\* str.rstrip(chars): drop every trailing character that is in the set chars
\* (dropped: how many characters at the end of s are in chars)
RStrip(s, chars) ==
    LET dropped == CHOOSE n \in 0..Len(s) :
                      /\ \A j \in (Len(s) - n + 1)..Len(s) : s[j] \in chars
                      /\ n = Len(s) \/ s[Len(s) - n] \notin chars
    IN SubSeq(s, 1, Len(s) - dropped)

\* str.rfind(c) + 1: the last position of c in s, 0 when absent
\* (after: how many characters follow the last c, all of s when absent)
LastIndexOf(s, c) ==
    LET after == CHOOSE n \in 0..Len(s) : n = Len(s) \/ s[Len(s) - n] = c
    IN Len(s) - after

\* posixpath.basename
Basename(p) == SubSeq(p, LastIndexOf(p, "/") + 1, Len(p))

\* posixpath.dirname
Dirname(p) ==
    With(SubSeq(p, 1, LastIndexOf(p, "/")),
         LAMBDA head : IF head # <<>> /\ (\E i \in 1..Len(head) : head[i] # "/")
                       THEN RStrip(head, {"/"})
                       ELSE head)

\* posixpath.join of two components
PathJoin(a, b) ==
    IF b # <<>> /\ b[1] = "/" THEN b
    ELSE IF a = <<>> \/ a[Len(a)] = "/" THEN a \o b
    ELSE a \o <<"/">> \o b

\* what a file opened in text mode (open(path), open(path, 'r')) hands to
\* the reader: universal newlines, "\r\n" and a lone "\r" both read as "\n"
TextRead(text) ==
    IF \A i \in 1..Len(text) : text[i] # "\r" THEN text
    ELSE
    LET kept == {i \in 1..Len(text) :
                   ~(text[i] = "\r" /\ i < Len(text) /\ text[i + 1] = "\n")}
        at(k) == CHOOSE i \in kept : Cardinality({x \in kept : x <= i}) = k
    IN [k \in 1..Cardinality(kept) |-> IF text[at(k)] = "\r" THEN "\n" ELSE text[at(k)]]

\* the lines of a text already read with universal newlines, each with its
\* "\n": the first line ends at the first "\n", or at the end of a text that
\* has none, and the rest of the text holds the lines after it
RECURSIVE SplitLines(_)
SplitLines(t) ==
    IF t = <<>> THEN <<>>
    ELSE LET end == CHOOSE i \in 1..Len(t) : t[i] = "\n" \/ i = Len(t)
         IN <<SubSeq(t, 1, end)>> \o SplitLines(SubSeq(t, end + 1, Len(t)))

\* iteration over a text file / readlines(): the lines, each with its "\n";
\* a line ends at each "\n" and at the end of a text that does not end in one
FileLines(text) == SplitLines(TextRead(text))

\* [line.rstrip('\n') for line in f]
StripNewlines(text) ==
    With(FileLines(text), LAMBDA ls : [k \in 1..Len(ls) |-> RStrip(ls[k], {"\n"})])

\* [i.rstrip() for i in open(path_bam).readlines()]
StripLines(text) ==
    With(FileLines(text), LAMBDA ls : [k \in 1..Len(ls) |-> RStrip(ls[k], Whitespace)])

\* re.search(pattern, f) for a pattern of literal characters and ".", which
\* matches any character but a newline
ReSearch(pattern, f) ==
    \E off \in 0..(Len(f) - Len(pattern)) :
        \A j \in 1..Len(pattern) :
            IF pattern[j] = "." THEN f[off + j] # "\n" ELSE pattern[j] = f[off + j]

Range(s) == {s[i] : i \in 1..Len(s)}

\* number of occurrences of x in the sequence s
Count(s, x) == Cardinality({i \in 1..Len(s) : s[i] = x})

\* f with key k set to v (k added to the domain when new)
Put(f, k, v) == [q \in (DOMAIN f) \cup {k} |-> IF q = k THEN v ELSE f[q]]

Sat(n) == IF n < MaxCount THEN n + 1 ELSE n

\* ------------------------------------------------------------------ inputs
\* os.path.abspath(workdir)
WorkDir == <<"/", "w">>

\* the files of the current directory when the first run starts: an index
\* left behind by the external tool and an unrelated file
CwdInit == { <<"x", ".", "b", "a", "m", ".", "b", "a", "i">>, <<"t">> }

\* the pattern of both purge calls, ".bam.bai"
PurgePattern == <<".", "b", "a", "m", ".", "b", "a", "i">>

\* --bam: absent, or x.bam
BamArgs == { None, <<"x", ".", "b", "a", "m">> }

\* --bamlist: absent, or the text of the list file:
\*   x.bam, y.bam                  two files
\*   x.bam, xa.bam                 two files
\*   x.bam, y.bam, z.bam, u.bam, v.bam   five files
BamlistArgs ==
    { None,
      <<"x", ".", "b", "a", "m", "\n", "y", ".", "b", "a", "m", "\n">>,
      <<"x", ".", "b", "a", "m", "\n", "x", "a", ".", "b", "a", "m", "\n">>,
      <<"x", ".", "b", "a", "m", "\n", "y", ".", "b", "a", "m", "\n",
        "z", ".", "b", "a", "m", "\n", "u", ".", "b", "a", "m", "\n",
        "v", ".", "b", "a", "m", "\n">> }

\* --target: the text of the region file (regions "1" and "2"):
\*   two regions; one region twice; a region and an empty line
TargetArgs ==
    { <<"1", "\n", "2", "\n">>,
      <<"1", "\n", "1", "\n">>,
      <<"1", "\n", "\n">> }

\* the regions the extraction tool may reject on every attempt (a malformed
\* region descriptor is found only when the tool rejects it)
Rejectable == { <<"2">> }

\* multiprocessing.cpu_count() of the host
CpuCounts == {1, 2}

\* the hosts a command line is run on: single mode does not read the cpu
\* count; a list longer than 4 * cpus is cut into chunks of several files,
\* which the lists here reach on one cpu; two pool workers run side by side
\* for the list of two files with different base names before ".bam" and the
\* target of two different regions
Hosts(bam, bamlist, target) ==
    IF bamlist = None \/ bam # None THEN {1}
    ELSE LET files == StripNewlines(bamlist)
             regions == StripNewlines(target)
         IN IF /\ Len(files) = 2
               /\ files[1][1] # files[2][1]
               /\ Len(regions) = 2
               /\ <<>> \notin Range(regions)
               /\ regions[1] # regions[2]
            THEN CpuCounts
            ELSE {1}

\* ------------------------------------------------------------------- state
VARIABLES
    args,     \* the parsed command line and the host's cpu count
    run,      \* the number of the current program run
    main,     \* the main process: its position and how it ended
    dirs,     \* disk: the directories
    bams,     \* disk: the BAM artifacts, path -> what they hold
    texts,    \* disk: the manifests (bam.list), path -> text
    logs,     \* disk: the log files, path -> the writes since the file was
              \* last truncated (its bytes: Layout)
    cwd,      \* disk: the names of the files of the current directory
    pool,     \* the chunks of pool.map (of the one call in single mode)
    proc,     \* the processes running extract1kgBAM: 0 is main, 1.. the pool
    env,      \* the environment: the regions the extraction tool rejects on
              \* every attempt, and the transient failures still to come
    obs       \* observation of the run: tool invocations, task starts, the
              \* regions extractbam returned for, failed directory creations

vars == <<args, run, main, dirs, bams, texts, logs, cwd, pool, proc, env, obs>>

Procs == {0} \cup CpuCounts

\* ------------------------------------------------------- names of one task
\* bam_list of extract1kgBAM_batch, or the one file of --bam
Items(a) ==
    IF a.bam = None /\ a.bamlist # None THEN StripNewlines(a.bamlist)
    ELSE IF a.bam # None /\ a.bamlist = None THEN <<a.bam>>
    ELSE <<>>

\* pre = bn.rstrip('.bam'): strips trailing characters of the set {., b, a, m}
Prefix(bam) == With(Basename(bam), LAMBDA bn : RStrip(bn, {".", "b", "a", "m"}))

\* outdir = os.path.join(wkdir, pre)
Outdir(pre) == PathJoin(WorkDir, pre)

\* outdir_sub = os.path.join(outdir, "subbam")
OutdirSub(outdir) == PathJoin(outdir, <<"s", "u", "b", "b", "a", "m">>)

\* outbam = "{}/{}.{}.bam".format(outdir_sub, region, pre)
Outbam(outdir_sub, region, pre) ==
    outdir_sub \o <<"/">> \o region \o <<".">> \o pre \o <<".", "b", "a", "m">>

\* path_bam = os.path.join(os.path.dirname(outbam), "bam.list")
BamlistPath(outbam) ==
    With(Dirname(outbam),
         LAMBDA dn : PathJoin(dn, <<"b", "a", "m", ".", "l", "i", "s", "t">>))

\* '{}/{}.log'.format(outdir, pre)
LogPath(outdir, pre) == outdir \o <<"/">> \o pre \o <<".", "l", "o", "g">>

\* mergedbam = os.path.join(outdir, "{}.targets.bam".format(pre))
MergedBam(outdir, pre) ==
    PathJoin(outdir, pre \o <<".", "t", "a", "r", "g", "e", "t", "s", ".", "b", "a", "m">>)

\* the manifest named in cmd1: "{}/subbam/bam.list".format(outdir)
MergeList(outdir) ==
    outdir \o <<"/", "s", "u", "b", "b", "a", "m", "/", "b", "a", "m", ".", "l", "i", "s", "t">>

\* samtools index writes the index next to the merged BAM
MergedIndex(mergedbam) == mergedbam \o <<".", "b", "a", "i">>

\* '{}/extract1kgBAM.log'.format(wkdir)
MainLog ==
    WorkDir \o <<"/", "e", "x", "t", "r", "a", "c", "t", "1", "k", "g", "B", "A", "M",
                 ".", "l", "o", "g">>

\* one transient failure of the environment has happened
Faulted(e) == [e EXCEPT !.faults = @ - 1]

\* os.makedirs(d) can fail with an errno other than EEXIST (no space, no
\* permission, read-only file system) when d has to be created
MkdirMayFail(ds, d, e) == d \notin ds /\ e.faults > 0

\* os.path.isfile
IsFile(p) == p \in DOMAIN bams \/ p \in DOMAIN texts \/ p \in DOMAIN logs

\* check_mkdir: os.makedirs creates the directory and its missing parents;
\* "already exists" is swallowed
Makedirs(ds, d) ==
    ds \cup ({ RStrip(SubSeq(d, 1, k), {"/"}) :
                 k \in {j \in 1..Len(d) : j = Len(d) \/ d[j + 1] = "/"} } \ {<<>>})

check_mkdir(ds, d) == Makedirs(ds, d)

\* purge(dir, pattern) on the current directory
purge(names, pattern) == {f \in names : ~ReSearch(pattern, f)}

\* a record of a log file: the message, the task that logged it (its input
\* file), and for a region's timing line the region and the skip annotation
Line(msg, by, region, skip) == [msg |-> msg, by |-> by, region |-> region, skip |-> skip]

\* os.getcwd() of line 216
ExecDir == <<"/", "c">>

\* the lengths of the run time string str(round(txrun - tx, 6)) of lines 110,
\* 143 and 236, for run times below 100 seconds: "0.0", "0.01", "9e-06",
\* "0.0123", "4.4e-05", "0.000154", "12.345678"
RuntimeLens == {3, 4, 5, 6, 7, 8, 9}

\* the length of the message of a record, for a run time string of rt
\* characters: the format strings of lines 106-111, 118, 141-144, 221, 228, 237
MessageLen(line, rt) ==
    CASE line.msg = "Extract" -> 9 + Len(Prefix(line.by))
      [] line.msg = "region" -> Len(line.region) + 1 + rt + 3 + (IF line.skip THEN 22 ELSE 0)
      [] line.msg = "merged bam" -> 10 + 1 + rt + 3 + (IF line.skip THEN 22 ELSE 0)
      [] line.msg = "Preparing" -> 47 + Len(ExecDir)
      [] line.msg = "Started" -> 14
      [] line.msg = "Completed" -> 28 + Len(WorkDir) + 16 + rt + 3

\* the bytes of a record in the file, Formatter('%(asctime)s %(message)s'):
\* the 23 characters of asctime, a space, the message, the newline
RecordLen(line, rt) == 23 + 1 + MessageLen(line, rt) + 1

\* the records whose message holds a run time string
Timed(line) == line.msg \in {"region", "merged bam", "Completed"}

\* a stretch of a log file: the bytes lo..hi of a record of total bytes
Seg(line, total, lo, hi) == [rec |-> line, total |-> total, lo |-> lo, hi |-> hi]

\* n bytes no write has filled: a file written past its end is extended with
\* zero bytes
Hole(n) == Seg(Line("", None, <<>>, FALSE), 0, 1, n)

SegLen(seg) == seg.hi - seg.lo + 1

\* the size of a file in bytes
FileLen(segs) ==
    LET sum[k \in 0..Len(segs)] == IF k = 0 THEN 0 ELSE sum[k - 1] + SegLen(segs[k])
    IN sum[Len(segs)]

\* the bytes a+1..b of a file
Cut(segs, a, b) ==
    LET start[k \in 1..(Len(segs) + 1)] ==
            IF k = 1 THEN 0 ELSE start[k - 1] + SegLen(segs[k - 1])
        in == {k \in 1..Len(segs) : start[k] < b /\ start[k + 1] > a}
        first == CHOOSE k \in in : \A j \in in : k <= j
        from(k) == IF start[k] < a THEN a - start[k] ELSE 0
        upto(k) == IF start[k + 1] > b THEN start[k + 1] - b ELSE 0
        part(k) == IF segs[k].total = 0
                   THEN Hole(SegLen(segs[k]) - from(k) - upto(k))
                   ELSE [segs[k] EXCEPT !.lo = @ + from(k), !.hi = @ - upto(k)]
    IN IF in = {} THEN <<>>
       ELSE [i \in 1..Cardinality(in) |-> part(first + i - 1)]

\* a file after the write of a record of len bytes at offset off: the write
\* replaces the bytes that are there, and leaves a hole before it when it
\* starts past the end of the file
WriteAt(segs, off, line, len) ==
    With(FileLen(segs),
         LAMBDA n :
            Cut(segs, 0, IF off < n THEN off ELSE n)
            \o (IF off > n THEN <<Hole(off - n)>> ELSE <<>>)
            \o <<Seg(line, len, 1, len)>>
            \o Cut(segs, IF off + len < n THEN off + len ELSE n, n))

\* logging.FileHandler(log_file, mode="w"): the stream of the handler is a
\* file object of its own, with its own offset, opened without O_APPEND.
\* The offset is the bytes the stream has written: wrote holds the records
\* it has written since it was opened
Handler(path, wrote) == [path |-> path, wrote |-> wrote]

\* the handlers after logger.info(line): each stream has advanced by the
\* record
Advance(hs, line) == [k \in 1..Len(hs) |-> Handler(hs[k].path, Append(hs[k].wrote, line))]

\* one write to a log file: in call number n of logger.info of the logger
\* by (of a run and a process of it), a stream that has written the records
\* before, those of the calls just before n, writes the record line.  The
\* program reads neither a run time string nor a log file: the clock decides
\* the length of a record, and the bytes of a file follow from its writes
\* for each choice of the lengths (Layout)
Write(by, n, before, line) == [by |-> by, n |-> n, before |-> before, rec |-> line]

\* logger.info(line) of the logger by with the handlers hs: the record is
\* formatted once, and every handler, in the order of the list, writes it
\* to its file at its own offset and flushes.  The first handler of the
\* list was added before the first call of the logger
LogInfo(lg, by, hs, line) ==
    LET after[k \in 0..Len(hs)] ==
            IF k = 0 THEN lg
            ELSE [after[k - 1] EXCEPT ![hs[k].path] =
                    Append(@, Write(by, Len(hs[1].wrote) + 1, hs[k].wrote, line))]
    IN after[Len(hs)]

\* the calls of logger.info whose record holds a run time string, among
\* the calls the bytes of the file depend on: those of its writes and those
\* that moved the offset of a stream before it wrote
TimedCalls(writes) ==
    UNION { {<<writes[k].by, writes[k].n - Len(writes[k].before) + j - 1>> :
               j \in {i \in 1..(Len(writes[k].before) + 1) :
                         Timed(Append(writes[k].before, writes[k].rec)[i])}}
            : k \in 1..Len(writes) }

\* the bytes of the record of call n of the logger by, for the lengths rts
\* of the run time strings of the calls
CallLen(by, n, line, rts) == RecordLen(line, IF Timed(line) THEN rts[<<by, n>>] ELSE 0)

\* the offset of the stream at a write: the bytes of the records before
Offset(w, rts) ==
    LET sum[j \in 0..Len(w.before)] ==
            IF j = 0 THEN 0
            ELSE sum[j - 1] + CallLen(w.by, w.n - Len(w.before) + j - 1, w.before[j], rts)
    IN sum[Len(w.before)]

\* the bytes of a file after its writes, for the lengths rts of the run time
\* strings
Layout(writes, rts) ==
    LET segs[k \in 0..Len(writes)] ==
            IF k = 0 THEN <<>>
            ELSE WriteAt(segs[k - 1], Offset(writes[k], rts), writes[k].rec,
                         CallLen(writes[k].by, writes[k].n, writes[k].rec, rts))
    IN segs[Len(writes)]

\* setup_logger: FileHandler(log_file, mode="w") truncates the file
OpenLog(lg, path) == Put(lg, path, <<>>)

\* a process outside extract1kgBAM; inside, the record holds the locals
\* bam, pre, outdir, regions, outbam, the position idx in the region list,
\* what create_bamlist read (seen), and the handlers of the process-wide
\* logger 'perbam_logger'
IdleProc == [pc |-> "idle", chunk |-> 0, pos |-> 0, bam |-> <<>>, pre |-> <<>>,
             outdir |-> <<>>, regions |-> <<>>, idx |-> 0, outbam |-> <<>>,
             handlers |-> <<>>, seen |-> <<>>]

\* the main process before line 208: its position, how it ended, and the
\* handlers of 'main_logger'
NoMain == [pc |-> "start", exit |-> "none", handlers |-> <<>>]

\* 'main_logger' of line 220 is a logger of the main process next to
\* 'perbam_logger'
MainProc == -1

\* the logger of process p of the current run: 'perbam_logger' of a process
\* running extract1kgBAM, 'main_logger' for MainProc
By(p) == <<run, p>>

NoPool == [items |-> <<>>, chunks |-> <<>>, next |-> 1, result |-> <<>>, error |-> "none"]

NoObs(a) ==
    [started |-> [i \in 1..Len(Items(a)) |-> 0],
     finished |-> [i \in 1..Len(Items(a)) |-> "no"],
     extract |-> [i \in 1..Len(Items(a)) |->
                    [k \in 1..Len(StripNewlines(a.target)) |-> 0]],
     toolFailed |-> [i \in 1..Len(Items(a)) |-> FALSE],
     invoked |-> [i \in 1..Len(Items(a)) |-> <<>>],
     merge |-> [i \in 1..Len(Items(a)) |-> 0],
     index |-> [i \in 1..Len(Items(a)) |-> 0],
     returned |-> [i \in 1..Len(Items(a)) |->
                     [k \in 1..Len(StripNewlines(a.target)) |-> "no"]],
     subbamFailed |-> [i \in 1..Len(Items(a)) |-> FALSE],
     succeeded |-> {},
     appended |-> {}]

\* the state when the program starts on an empty disk, for a command line
\* and host among cmds
Boot(cmds) ==
    /\ args \in cmds
    /\ run = 1
    /\ main = NoMain
    /\ dirs = {}
    /\ bams = <<>>
    /\ texts = <<>>
    /\ logs = <<>>
    /\ cwd = CwdInit
    /\ pool = NoPool
    /\ proc = [p \in Procs |-> IdleProc]
    /\ env \in [rejected : SUBSET (Rejectable \cap Range(StripNewlines(args.target))),
                faults : {MaxFaults}]
    /\ obs = NoObs(args)

Init ==
    Boot({ a \in [bam : BamArgs, bamlist : BamlistArgs, target : TargetArgs,
                  force : BOOLEAN, cpus : CpuCounts] :
             a.cpus \in Hosts(a.bam, a.bamlist, a.target) })

\* ------------------------------------------------------------ the processes
CurItem(p) == pool.chunks[proc[p].chunk][proc[p].pos]

CurRegion(p) == proc[p].regions[proc[p].idx]

\* Pool._map_async: chunksize, extra = divmod(len(iterable), len(pool) * 4);
\* if extra: chunksize += 1; the chunks are consecutive slices of the list
ChunkSize(n, cpus) == (n \div (cpus * 4)) + (IF n % (cpus * 4) # 0 THEN 1 ELSE 0)

Chunks(n, cpus) ==
    LET cs == ChunkSize(n, cpus)
        nc == IF n = 0 THEN 0 ELSE (n + cs - 1) \div cs
    IN [c \in 1..nc |->
          [j \in 1..(IF c * cs <= n THEN cs ELSE n - (c - 1) * cs) |-> (c - 1) * cs + j]]

\* a process enters extract1kgBAM(target, wkdir, force, bam) for the file at
\* position pos of chunk c, with the handlers hs on the process-wide logger
Enter(hs, c, pos, bam) ==
    [IdleProc EXCEPT !.pc = "setup", !.chunk = c, !.pos = pos, !.bam = bam, !.handlers = hs]

StartItem(p, c, pos, bam) == [proc EXCEPT ![p] = Enter(proc[p].handlers, c, pos, bam)]

Started(o, i) == [o EXCEPT !.started[i] = Sat(@)]

\* how main ends when an exception reaches the try of line 215: main
\* catches IOError, which is OSError (line 238), anything else ends the
\* program with a traceback
Raised(m, error) ==
    IF error = "OSError" THEN [m EXCEPT !.pc = "exit", !.exit = "ioerror"]
    ELSE [m EXCEPT !.pc = "exit", !.exit = "crashed"]

\* lines 208-228 of main, up to the call of runprogram
MainStart ==
    /\ main.pc = "start"
    /\ IF args.bam # None \/ args.bamlist # None
       THEN \/ /\ dirs' = check_mkdir(dirs, WorkDir)
               /\ \E preparing \in {Line("Preparing", None, <<>>, FALSE)} :
                  \E started \in {Line("Started", None, <<>>, FALSE)} :
                  \E h0 \in {<<Handler(MainLog, <<>>)>>} :
                     /\ logs' = LogInfo(LogInfo(OpenLog(logs, MainLog),
                                                By(MainProc), h0, preparing),
                                        By(MainProc), Advance(h0, preparing), started)
                     /\ main' = [main EXCEPT !.pc = "run",
                                             !.handlers = Advance(Advance(h0, preparing),
                                                                  started)]
               /\ cwd' = purge(cwd, PurgePattern)
               /\ env' = env
            \* line 218: os.makedirs fails with an errno other than EEXIST,
            \* line 59 raises it and line 238 catches it
            \/ /\ MkdirMayFail(dirs, WorkDir, env)
               /\ env' = Faulted(env)
               /\ main' = Raised(main, "OSError")
               /\ UNCHANGED <<dirs, logs, cwd>>
       ELSE /\ main' = [main EXCEPT !.pc = "exit", !.exit = "usage"]
            /\ UNCHANGED <<dirs, logs, cwd, env>>
    /\ UNCHANGED <<args, run, bams, texts, pool, proc, obs>>

\* pool.map(func, bam_list), line 180: the list is cut into chunks
MapCall(bam_list, cpus) ==
    [items |-> bam_list,
     chunks |-> Chunks(Len(bam_list), cpus),
     next |-> 1,
     result |-> [c \in 1..Len(Chunks(Len(bam_list), cpus)) |-> "pending"],
     error |-> "none"]

\* runprogram: the two tests of lines 199 and 201; batch mode reads the list,
\* creates the pool and calls pool.map, single mode calls extract1kgBAM
RunProgram ==
    /\ main.pc = "run"
    /\ IF args.bam = None /\ args.bamlist # None
       THEN \/ /\ \E bam_list \in {StripNewlines(args.bamlist)} :
                    pool' = MapCall(bam_list, args.cpus)
               /\ main' = [main EXCEPT !.pc = "map"]
               /\ UNCHANGED <<proc, obs, env>>
            \* line 175: open(bamlist) raises IOError, which line 238 catches
            \/ /\ env.faults > 0
               /\ env' = Faulted(env)
               /\ main' = Raised(main, "OSError")
               /\ UNCHANGED <<pool, proc, obs>>
       ELSE IF args.bam # None /\ args.bamlist = None
       THEN /\ pool' = [items |-> <<args.bam>>, chunks |-> << <<1>> >>, next |-> 2,
                        result |-> <<"pending">>, error |-> "none"]
            /\ proc' = StartItem(0, 1, 1, args.bam)
            /\ obs' = Started(obs, 1)
            /\ main' = [main EXCEPT !.pc = "single"]
            /\ env' = env
       ELSE /\ main' = [main EXCEPT !.pc = "post"]
            /\ UNCHANGED <<pool, proc, obs, env>>
    /\ UNCHANGED <<args, run, dirs, bams, texts, logs, cwd>>

\* a pool worker takes the next chunk of the task queue
TakeChunk(w) ==
    /\ main.pc = "map"
    /\ w \in 1..args.cpus
    /\ proc[w].pc = "idle"
    /\ pool.next <= Len(pool.chunks)
    /\ proc' = StartItem(w, pool.next, 1, pool.items[pool.chunks[pool.next][1]])
    /\ pool' = [pool EXCEPT !.next = @ + 1]
    /\ obs' = Started(obs, pool.chunks[pool.next][1])
    /\ UNCHANGED <<args, run, main, dirs, bams, texts, logs, cwd, env>>

\* extract1kgBAM returns (result "ok") or raises (the exception's name):
\* the worker goes on with the next file of its chunk, or the chunk ends;
\* an exception ends the chunk at once (mapstar runs the chunk in one call)
FinishWith(p, result, ob, hs) ==
    LET c == proc[p].chunk
        o == [ob EXCEPT !.finished[CurItem(p)] = result]
    IN IF result = "ok" /\ proc[p].pos < Len(pool.chunks[c])
       THEN /\ proc' = [proc EXCEPT ![p] =
                          Enter(hs, c, proc[p].pos + 1,
                                pool.items[pool.chunks[c][proc[p].pos + 1]])]
            /\ obs' = Started(o, pool.chunks[c][proc[p].pos + 1])
            /\ pool' = pool
       ELSE /\ proc' = [proc EXCEPT ![p] = [IdleProc EXCEPT !.handlers = hs]]
            /\ obs' = o
            /\ pool' = [pool EXCEPT !.result[c] = result,
                                    !.error = IF @ = "none" /\ result # "ok"
                                              THEN result ELSE @]

\* the same when the handlers of the process have not written
Finish(p, result, ob) == FinishWith(p, result, ob, proc[p].handlers)

\* ---------------------------------------------------------- extract1kgBAM
\* lines 148-158: the working subtree and the per-file logger; the handler
\* is added to the process-wide logger named 'perbam_logger'
Setup(p) ==
    /\ proc[p].pc = "setup"
    /\ \E pre \in {Prefix(proc[p].bam)} :
       \E outdir \in {Outdir(pre)} :
       \E log_file \in {LogPath(outdir, pre)} :
          \/ /\ dirs' = check_mkdir(check_mkdir(dirs, WorkDir), outdir)
             /\ logs' = OpenLog(logs, log_file)
             /\ proc' = [proc EXCEPT ![p].pc = "load", ![p].pre = pre,
                                     ![p].outdir = outdir,
                                     ![p].handlers = Append(@, Handler(log_file, <<>>))]
             /\ UNCHANGED <<pool, obs, env>>
          \* line 156: os.makedirs fails with an errno other than EEXIST and
          \* line 59 raises it out of extract1kgBAM
          \/ /\ MkdirMayFail(dirs, outdir, env)
             /\ dirs' = check_mkdir(dirs, WorkDir)
             /\ logs' = logs
             /\ env' = Faulted(env)
             /\ Finish(p, "OSError", obs)
    /\ UNCHANGED <<args, run, main, bams, texts, cwd>>

\* a loop over the regions that leaves one out
NextIndexSkipping(idx) == idx + 2

\* the position the list comprehension of line 120 goes to after position idx
NextIndex(idx) == idx + 1

\* a retry that starts the region list over
RetryFromFirst(idx) == 1

\* the position @tenacity.retry calls extractbam for again after a failure
RetryIndex(idx) == idx

\* the process after extractbam returned for position idx of n regions
AfterRegion(prc, idx, n) ==
    IF NextIndex(idx) \in 1..n
    THEN [prc EXCEPT !.pc = "decide", !.idx = NextIndex(idx), !.seen = <<>>,
                     !.outbam = <<>>]
    ELSE [prc EXCEPT !.pc = "merge", !.idx = NextIndex(idx), !.seen = <<>>,
                     !.outbam = <<>>]

\* extractbams, lines 115-120: the regions are the lines of the target file
Load(p) ==
    /\ proc[p].pc = "load"
    /\ \/ /\ \E regions \in {StripNewlines(args.target)} :
             \E line \in {Line("Extract", proc[p].bam, <<>>, FALSE)} :
                /\ logs' = LogInfo(logs, By(p), proc[p].handlers, line)
                /\ proc' = [proc EXCEPT ![p] =
                              AfterRegion([@ EXCEPT !.regions = regions,
                                                    !.handlers = Advance(@, line)],
                                          0, Len(regions))]
          /\ UNCHANGED <<pool, obs, env>>
       \* line 115: open(target) raises IOError (OSError) out of extract1kgBAM
       \/ /\ env.faults > 0
          /\ env' = Faulted(env)
          /\ logs' = logs
          /\ Finish(p, "OSError", obs)
    /\ UNCHANGED <<args, run, main, dirs, bams, texts, cwd>>

\* extractbam returned for position k of the region list of item i
Returned(o, i, k, how) == [o EXCEPT !.returned[i][k] = how]

\* a runner that never skips
SkipNever(force, exists) == FALSE

\* lines 97-106: extraction is skipped when not forced and the file exists
SkipExisting(force, exists) == ~force /\ exists

\* extractbam, lines 89-97 and 100-102, and on the skip branch 106-112
Decide(p) ==
    /\ proc[p].pc = "decide"
    /\ \E outdir_sub \in {OutdirSub(proc[p].outdir)} :
       \E outbam \in {Outbam(outdir_sub, CurRegion(p), proc[p].pre)} :
          \/ /\ dirs' = check_mkdir(dirs, outdir_sub)
             /\ IF SkipExisting(args.force, IsFile(outbam))
                THEN /\ \E line \in {Line("region", proc[p].bam, CurRegion(p), TRUE)} :
                          /\ logs' = LogInfo(logs, By(p), proc[p].handlers, line)
                          /\ proc' = [proc EXCEPT ![p] =
                                        AfterRegion([@ EXCEPT !.handlers = Advance(@, line)],
                                                    proc[p].idx, Len(proc[p].regions))]
                     /\ obs' = Returned(obs, CurItem(p), proc[p].idx, "skipped")
                ELSE /\ proc' = [proc EXCEPT ![p].pc = "tool", ![p].outbam = outbam]
                     /\ UNCHANGED <<logs, obs>>
             /\ env' = env
          \* line 93: os.makedirs fails with an errno other than EEXIST, line 59
          \* raises it inside extractbam, and @tenacity.retry (line 72) calls
          \* extractbam again
          \/ /\ MkdirMayFail(dirs, outdir_sub, env)
             /\ env' = Faulted(env)
             /\ obs' = [obs EXCEPT !.subbamFailed[CurItem(p)] = TRUE]
             /\ proc' = [proc EXCEPT ![p].idx = RetryIndex(@)]
             /\ UNCHANGED <<dirs, logs>>
    /\ UNCHANGED <<args, run, main, bams, texts, cwd, pool>>

\* the observation of one invocation of samtools view
Invoked(o, i, k) ==
    [o EXCEPT !.extract[i][k] = Sat(@),
              !.invoked[i] = IF @ # <<>> /\ @[Len(@)] = k THEN @ ELSE Append(@, k)]

\* the extraction tool after a failed attempt for the region
Failed(e, region) ==
    IF region \in e.rejected THEN e ELSE Faulted(e)

\* what samtools view writes: the reads of one region of one input file
Artifact(bam, region, complete) == [src |-> bam, region |-> region, complete |-> complete]

\* a call of the tool that ignores the exit status
RaisesNever(exit) == FALSE

\* subprocess.check_call raises CalledProcessError on a non-zero exit
Raises(exit) == exit # 0

\* the process after the extraction tool has exited: check_call raised and
\* @tenacity.retry (line 72: no stop, no wait) calls extractbam again, or
\* check_call returned and create_bamlist is called (lines 99 and 104)
AfterTool(prc, exit) ==
    IF Raises(exit)
    THEN [prc EXCEPT !.pc = "decide", !.idx = RetryIndex(@), !.outbam = <<>>]
    ELSE [prc EXCEPT !.pc = "bl_read"]

\* the observation of one exit of samtools view for the path outbam
Exited(o, i, exit, outbam) ==
    [o EXCEPT !.toolFailed[i] = @ \/ exit # 0,
              !.succeeded = IF exit = 0 THEN @ \cup {outbam} ELSE @]

\* subprocess.check_call(cmd) of lines 98 and 103 starts samtools view: the
\* tool creates the file at its output path (-o) and goes on writing it,
\* where any process finds it, while check_call waits; or the tool exits
\* non-zero before it has opened its output, and check_call raises
Tool(p) ==
    /\ proc[p].pc = "tool"
    /\ \/ /\ Dirname(proc[p].outbam) \in dirs
          /\ bams' = Put(bams, proc[p].outbam, Artifact(proc[p].bam, CurRegion(p), FALSE))
          /\ proc' = [proc EXCEPT ![p].pc = "wait"]
          /\ env' = env
          /\ obs' = Invoked(obs, CurItem(p), proc[p].idx)
       \/ /\ CurRegion(p) \in env.rejected \/ env.faults > 0
          /\ bams' = bams
          /\ proc' = [proc EXCEPT ![p] = AfterTool(@, 1)]
          /\ env' = Failed(env, CurRegion(p))
          /\ obs' = Exited(Invoked(obs, CurItem(p), proc[p].idx), CurItem(p), 1,
                           proc[p].outbam)
    /\ UNCHANGED <<args, run, main, dirs, texts, logs, cwd, pool>>

\* the wait of check_call of lines 98 and 103 ends: samtools view has exited
\* zero with the output written, or non-zero with what it had written left
\* at the output path, and check_call raises
Wait(p) ==
    /\ proc[p].pc = "wait"
    /\ \/ /\ CurRegion(p) \notin env.rejected
          /\ bams' = Put(bams, proc[p].outbam, Artifact(proc[p].bam, CurRegion(p), TRUE))
          /\ proc' = [proc EXCEPT ![p] = AfterTool(@, 0)]
          /\ env' = env
          /\ obs' = Exited(obs, CurItem(p), 0, proc[p].outbam)
       \/ /\ CurRegion(p) \in env.rejected \/ env.faults > 0
          /\ bams' = bams
          /\ proc' = [proc EXCEPT ![p] = AfterTool(@, 1)]
          /\ env' = Failed(env, CurRegion(p))
          /\ obs' = Exited(obs, CurItem(p), 1, proc[p].outbam)
    /\ UNCHANGED <<args, run, main, dirs, texts, logs, cwd, pool>>

\* create_bamlist, lines 75-79: the test for the manifest and its lines
BamlistRead(p) ==
    /\ proc[p].pc = "bl_read"
    /\ \E path_bam \in {BamlistPath(proc[p].outbam)} :
          proc' = [proc EXCEPT ![p].pc = "bl_write",
                               ![p].seen = IF path_bam \in DOMAIN texts
                                           THEN <<TRUE, StripLines(texts[path_bam])>>
                                           ELSE <<FALSE, <<>> >>]
    /\ UNCHANGED <<args, run, main, dirs, bams, texts, logs, cwd, pool, obs, env>>

\* an append that does not look at the lines read
AppendAlways(outbam, lines) == TRUE

\* line 80: the path is written when it is not among the lines read
MustAppend(outbam, lines) == outbam \notin Range(lines)

\* the manifests after lines 80-87 of create_bamlist, for what lines 78-79 saw
BamlistAfter(tx, outbam, seen) ==
    With(BamlistPath(outbam),
         LAMBDA path_bam :
            IF seen[1]
            THEN IF MustAppend(outbam, seen[2])
                 THEN Put(tx, path_bam,
                          (IF path_bam \in DOMAIN tx THEN tx[path_bam] ELSE <<>>)
                          \o outbam \o <<"\n">>)
                 ELSE tx
            ELSE Put(tx, path_bam, outbam \o <<"\n">>))

\* create_bamlist, lines 80-87, and the end of extractbam, lines 109-112
BamlistWrite(p) ==
    /\ proc[p].pc = "bl_write"
    /\ texts' = BamlistAfter(texts, proc[p].outbam, proc[p].seen)
    /\ \E line \in {Line("region", proc[p].bam, CurRegion(p), FALSE)} :
          /\ logs' = LogInfo(logs, By(p), proc[p].handlers, line)
          /\ proc' = [proc EXCEPT ![p] =
                        AfterRegion([@ EXCEPT !.handlers = Advance(@, line)],
                                    proc[p].idx, Len(proc[p].regions))]
    /\ obs' = [Returned(obs, CurItem(p), proc[p].idx, "extracted")
                 EXCEPT !.appended = @ \cup {proc[p].outbam}]
    /\ UNCHANGED <<args, run, main, dirs, bams, cwd, pool, env>>

\* the positional arguments of the call mergebam(outdir, pre) of line 161
MergebamArgs == 2

\* the parameters of def mergebam(outdir, pre, force) of line 122
MergebamParams == 3

\* the call mergebam(outdir, pre) of line 161 and mergebam up to the test
\* of lines 131 and 135.  The call binds its arguments first: with fewer
\* arguments than parameters Python raises TypeError and no line of the body
\* runs.  The body: skipped (lines 139-145) or on to the merge tool.
MergeCall(p) ==
    IF MergebamArgs # MergebamParams
    THEN /\ Finish(p, "TypeError", obs)
         /\ UNCHANGED <<bams, logs>>
    ELSE IF SkipExisting(args.force, IsFile(MergedBam(proc[p].outdir, proc[p].pre)))
    THEN /\ \E line \in {Line("merged bam", proc[p].bam, <<>>, TRUE)} :
              /\ logs' = LogInfo(logs, By(p), proc[p].handlers, line)
              /\ FinishWith(p, "ok", obs, Advance(proc[p].handlers, line))
         /\ bams' = bams
    ELSE /\ proc' = [proc EXCEPT ![p].pc = "merging"]
         /\ UNCHANGED <<bams, logs, pool, obs>>

\* check_call(cmd1) of lines 132 and 136 starts samtools merge: the tool
\* creates the merged file at its output path and goes on writing it, where
\* any process finds it, while check_call waits; or the tool exits non-zero
\* before it has opened its output, and check_call raises
MergeTool(p) ==
    LET i == CurItem(p)
        mergedbam == MergedBam(proc[p].outdir, proc[p].pre)
        mergeRan == [obs EXCEPT !.merge[i] = Sat(@)]
    IN \/ /\ bams' = Put(bams, mergedbam, Artifact(proc[p].bam, <<"*">>, FALSE))
          /\ proc' = [proc EXCEPT ![p].pc = "merge_wait"]
          /\ obs' = mergeRan
          /\ UNCHANGED <<logs, pool>>
       \/ /\ UNCHANGED <<bams, logs>>
          /\ Finish(p, "CalledProcessError", [mergeRan EXCEPT !.toolFailed[i] = TRUE])

\* the wait of check_call(cmd1) ends: samtools merge has exited zero with
\* the merged file written, and mergebam goes on to check_call(cmd2) of
\* lines 133 and 137; or it has exited non-zero with what it had written
\* left at the path, and check_call raises
MergeWait(p) ==
    LET i == CurItem(p)
        mergedbam == MergedBam(proc[p].outdir, proc[p].pre)
    IN \/ /\ bams' = Put(bams, mergedbam, Artifact(proc[p].bam, <<"*">>, TRUE))
          /\ proc' = [proc EXCEPT ![p].pc = "index"]
          /\ UNCHANGED <<logs, pool, obs>>
       \/ /\ UNCHANGED <<bams, logs>>
          /\ Finish(p, "CalledProcessError", [obs EXCEPT !.toolFailed[i] = TRUE])

\* check_call(cmd2) of lines 133 and 137 starts samtools index: the tool
\* creates the index next to the merged file and goes on writing it while
\* check_call waits; or it exits non-zero before it has opened its output
IndexCall(p) ==
    LET i == CurItem(p)
        index == MergedIndex(MergedBam(proc[p].outdir, proc[p].pre))
        indexRan == [obs EXCEPT !.index[i] = Sat(@)]
    IN \/ /\ bams' = Put(bams, index, Artifact(proc[p].bam, <<"*">>, FALSE))
          /\ proc' = [proc EXCEPT ![p].pc = "index_wait"]
          /\ obs' = indexRan
          /\ UNCHANGED <<logs, pool>>
       \/ /\ UNCHANGED <<bams, logs>>
          /\ Finish(p, "CalledProcessError", [indexRan EXCEPT !.toolFailed[i] = TRUE])

\* the wait of check_call(cmd2) ends: samtools index has exited zero with
\* the index written, and mergebam goes on to line 141; or it has exited
\* non-zero with what it had written left at the path, and check_call raises
IndexWait(p) ==
    LET i == CurItem(p)
        index == MergedIndex(MergedBam(proc[p].outdir, proc[p].pre))
    IN \/ /\ bams' = Put(bams, index, Artifact(proc[p].bam, <<"*">>, TRUE))
          /\ proc' = [proc EXCEPT ![p].pc = "merge_log"]
          /\ UNCHANGED <<logs, pool, obs>>
       \/ /\ UNCHANGED <<bams, logs>>
          /\ Finish(p, "CalledProcessError", [obs EXCEPT !.toolFailed[i] = TRUE])

\* lines 141-145 after both tools have exited zero: the "merged bam" record,
\* and mergebam and extract1kgBAM return
MergeLog(p) ==
    /\ \E line \in {Line("merged bam", proc[p].bam, <<>>, FALSE)} :
          /\ logs' = LogInfo(logs, By(p), proc[p].handlers, line)
          /\ FinishWith(p, "ok", obs, Advance(proc[p].handlers, line))
    /\ bams' = bams

\* the positions of a process at the call of mergebam and inside it
MergePcs == {"merge", "merging", "merge_wait", "index", "index_wait", "merge_log"}

\* line 161: the process at the call of mergebam, or inside it: waiting for
\* one of the two tools, or at the record of line 145 (with MergebamArgs
\* below MergebamParams the call raises, and no process comes inside)
Merge(p) ==
    /\ proc[p].pc \in MergePcs
    /\ IF proc[p].pc = "merge_log" THEN MergeLog(p)
       ELSE IF proc[p].pc = "index_wait" THEN IndexWait(p)
       ELSE IF proc[p].pc = "index" THEN IndexCall(p)
       ELSE IF proc[p].pc = "merge_wait" THEN MergeWait(p)
       ELSE IF proc[p].pc = "merging" THEN MergeTool(p)
       ELSE MergeCall(p)
    /\ UNCHANGED <<args, run, main, dirs, texts, cwd, env>>

\* ------------------------------------------------------- the end of a run
\* pool.map, lines 180-182: the result is ready once every chunk has ended;
\* the first exception of a chunk is raised in main, else close and join
MapReturn ==
    /\ main.pc = "map"
    /\ \A c \in 1..Len(pool.chunks) : pool.result[c] # "pending"
    /\ main' = IF pool.error # "none" THEN Raised(main, pool.error)
               ELSE [main EXCEPT !.pc = "post"]
    /\ UNCHANGED <<args, run, dirs, bams, texts, logs, cwd, pool, proc, obs, env>>

\* line 202: extract1kgBAM returned to runprogram, or raised
SingleReturn ==
    /\ main.pc = "single"
    /\ pool.result[1] # "pending"
    /\ main' = IF pool.error # "none" THEN Raised(main, pool.error)
               ELSE [main EXCEPT !.pc = "post"]
    /\ UNCHANGED <<args, run, dirs, bams, texts, logs, cwd, pool, proc, obs, env>>

\* lines 231-237 of main
MainPost ==
    /\ main.pc = "post"
    /\ cwd' = purge(cwd, PurgePattern)
    /\ \E line \in {Line("Completed", None, <<>>, FALSE)} :
          /\ logs' = LogInfo(logs, By(MainProc), main.handlers, line)
          /\ main' = [main EXCEPT !.pc = "exit", !.exit = "completed",
                                  !.handlers = Advance(@, line)]
    /\ UNCHANGED <<args, run, dirs, bams, texts, pool, proc, obs, env>>

\* the program is run again with the same arguments, except that --force
\* may differ, on the disk the earlier run left
Rerun ==
    /\ main.pc = "exit"
    /\ run < MaxRuns
    /\ run' = run + 1
    /\ \E f \in BOOLEAN : args' = [args EXCEPT !.force = f]
    /\ main' = NoMain
    /\ pool' = NoPool
    /\ proc' = [p \in Procs |-> IdleProc]
    /\ obs' = [NoObs(args) EXCEPT !.appended = obs.appended,
                                  !.succeeded = obs.succeeded]
    /\ UNCHANGED <<dirs, bams, texts, logs, cwd, env>>

Next ==
    \/ MainStart
    \/ RunProgram
    \/ \E w \in Procs : TakeChunk(w)
    \/ \E p \in Procs : Setup(p)
    \/ \E p \in Procs : Load(p)
    \/ \E p \in Procs : Decide(p)
    \/ \E p \in Procs : Tool(p)
    \/ \E p \in Procs : Wait(p)
    \/ \E p \in Procs : BamlistRead(p)
    \/ \E p \in Procs : BamlistWrite(p)
    \/ \E p \in Procs : Merge(p)
    \/ MapReturn
    \/ SingleReturn
    \/ MainPost
    \/ Rerun

Spec == Init /\ [][Next]_vars

\* the steps of one process inside extract1kgBAM (and of a pool worker)
ProcStep(p) ==
    \/ TakeChunk(p) \/ Setup(p) \/ Load(p) \/ Decide(p) \/ Tool(p) \/ Wait(p)
    \/ BamlistRead(p) \/ BamlistWrite(p) \/ Merge(p)

\* the steps of main outside extract1kgBAM
MainStep == MainStart \/ RunProgram \/ MapReturn \/ SingleReturn \/ MainPost

\* every process that can take a step is scheduled: no step of the program
\* waits for anything but the external tool's exit
FairSpec ==
    /\ Spec
    /\ WF_vars(MainStep)
    /\ \A p \in Procs : WF_vars(ProcStep(p))

\* ------------------------------------------- two pool workers, one subtree
\* batch runs on a host of two cpus for the list x.bam, xa.bam, whose two
\* files have the same Prefix, so that two pool workers run the drivers of
\* the two files side by side
RaceInit ==
    Boot({ a \in [bam : {None}, bamlist : BamlistArgs, target : TargetArgs,
                  force : BOOLEAN, cpus : {2}] :
             /\ a.bamlist # None
             /\ Len(StripNewlines(a.bamlist)) = 2
             /\ Prefix(StripNewlines(a.bamlist)[1]) = Prefix(StripNewlines(a.bamlist)[2])
             /\ a.target = <<"1", "\n", "2", "\n">> })

\* the steps of one batch run
RaceNext ==
    \/ MainStart
    \/ RunProgram
    \/ \E w \in Procs : TakeChunk(w)
    \/ \E p \in Procs : Setup(p)
    \/ \E p \in Procs : Load(p)
    \/ \E p \in Procs : Decide(p)
    \/ \E p \in Procs : Tool(p)
    \/ \E p \in Procs : Wait(p)
    \/ \E p \in Procs : BamlistRead(p)
    \/ \E p \in Procs : BamlistWrite(p)
    \/ \E p \in Procs : Merge(p)
    \/ MapReturn

RaceSpec == RaceInit /\ [][RaceNext]_vars

\* ------------------------------------------------------------------ claims
AllItems == 1..Len(Items(args))

Regions == StripNewlines(args.target)

SingleMode == args.bam # None /\ args.bamlist = None

BatchMode == args.bam = None /\ args.bamlist # None

\* extract1kgBAM has gone through the extraction of every region for item i
\* and has ended (returned, or raised at or after the call of mergebam)
DriverEnded(i) == obs.finished[i] \in {"ok", "TypeError", "CalledProcessError"}

\* the paths extract1kgBAM uses for an input file
OutbamOf(bam, region) == Outbam(OutdirSub(Outdir(Prefix(bam))), region, Prefix(bam))

LogOf(bam) == LogPath(Outdir(Prefix(bam)), Prefix(bam))

MergedOf(bam) == MergedBam(Outdir(Prefix(bam)), Prefix(bam))

\* the records a reader finds in the bytes of a log file, in file order: a
\* record whose bytes are all there as it was logged, and with the message
\* "torn" what is left of a record that was partly overwritten; holes hold
\* no record
Records(segs) ==
    LET shown == {k \in 1..Len(segs) : segs[k].total > 0}
        at(n) == CHOOSE k \in shown : Cardinality({x \in shown : x <= k}) = n
    IN [n \in 1..Cardinality(shown) |->
          IF SegLen(segs[at(n)]) = segs[at(n)].total THEN segs[at(n)].rec
          ELSE [segs[at(n)].rec EXCEPT !.msg = "torn"]]

\* the writes are those of one stream since it opened the file: each is at
\* the end of the file
Appended(writes) ==
    \A k \in 1..Len(writes) :
       /\ writes[k].by = writes[1].by
       /\ writes[k].n = writes[1].n + k - 1
       /\ Len(writes[k].before) = k - 1

\* what a reader can find in a log file: its records for each choice of
\* the lengths of the run time strings
Readings(writes) ==
    IF Appended(writes) THEN {[k \in 1..Len(writes) |-> writes[k].rec]}
    ELSE {Records(Layout(writes, rts)) : rts \in [TimedCalls(writes) -> RuntimeLens]}

RECURSIVE Dedup(_)
\* the elements of a sequence in order of first occurrence
Dedup(s) ==
    IF s = <<>> THEN <<>>
    ELSE LET init == Dedup(SubSeq(s, 1, Len(s) - 1))
         IN IF s[Len(s)] \in Range(init) THEN init ELSE Append(init, s[Len(s)])

\* the output paths of the regions of the Region List for one input file
RegionPaths(bam) == [k \in 1..Len(Regions) |-> OutbamOf(bam, Regions[k])]

\* the entries of the manifest merge reads for one input file
ManifestEntries(bam) ==
    IF MergeList(Outdir(Prefix(bam))) \in DOMAIN texts
    THEN StripNewlines(texts[MergeList(Outdir(Prefix(bam)))])
    ELSE <<>>

\* C1: once the driver has gone through every region of an input file, the
\* merge tool has been invoked over the manifest (and the index tool after
\* a successful merge, leaving the merged artifact and its index), unless
\* force is false and the merged artifact already exists.
C1_MergeFollowsExtraction ==
    \A i \in AllItems :
        DriverEnded(i) =>
            \/ ~args.force /\ obs.merge[i] = 0 /\ IsFile(MergedOf(Items(args)[i]))
            \/ /\ obs.merge[i] > 0
               /\ ~obs.toolFailed[i] =>
                    /\ obs.index[i] > 0
                    /\ IsFile(MergedOf(Items(args)[i]))
                    /\ IsFile(MergedIndex(MergedOf(Items(args)[i])))

\* C2: extractbam entered with force false for a region whose output an
\* earlier extraction of the same file and region produced returns without
\* invoking the extraction tool, leaves the artifacts and the manifests as
\* they are, and logs the region's line with the skip annotation: the last
\* write to the log of the file is that record, written by this process,
\* and for every length of every run time string (RuntimeLens) it is the
\* last record a reader finds in the file, whole.
C2_SecondRunSkips ==
    [][ \A p \in Procs :
          ( /\ proc[p].pc = "decide"
            /\ proc'[p] # proc[p]
            /\ ~args.force
            /\ OutbamOf(proc[p].bam, CurRegion(p)) \in DOMAIN bams
            /\ bams[OutbamOf(proc[p].bam, CurRegion(p))] =
                 Artifact(proc[p].bam, CurRegion(p), TRUE) )
          => /\ proc'[p].pc \in {"decide", "merge"}
             /\ proc'[p].idx = proc[p].idx + 1
             /\ obs'.extract = obs.extract
             /\ bams' = bams
             /\ texts' = texts
             /\ LET lp == LogOf(proc[p].bam)
                    line == Line("region", proc[p].bam, CurRegion(p), TRUE)
                IN /\ Len(logs'[lp]) > Len(logs[lp])
                   /\ logs'[lp][Len(logs'[lp])].by = By(p)
                   /\ logs'[lp][Len(logs'[lp])].rec = line
                   /\ \A reading \in Readings(logs'[lp]) :
                         reading[Len(reading)] = line ]_vars

\* C2 witness: in a re-run without force a driver went through every region
\* without one invocation of the extraction tool, the artifacts of the first
\* run in place, and a reader finds a skip line in its log whatever the
\* lengths of the records.
C2_Witness ==
    /\ run = 2
    /\ ~args.force
    /\ \E i \in AllItems :
         /\ DriverEnded(i)
         /\ \A k \in 1..Len(Regions) :
              /\ obs.extract[i][k] = 0
              /\ OutbamOf(Items(args)[i], Regions[k]) \in DOMAIN bams
              /\ bams[OutbamOf(Items(args)[i], Regions[k])].complete
         /\ \A reading \in Readings(logs[LogOf(Items(args)[i])]) :
              Line("region", Items(args)[i], Regions[1], TRUE) \in Range(reading)

\* C3: with force true a driver that has ended has invoked the extraction
\* tool for every region of the list and then the merge tool, and the index
\* tool after a successful merge.
C3_ForceInvokesEverything ==
    \A i \in AllItems :
        (args.force /\ DriverEnded(i)) =>
            /\ \A k \in 1..Len(Regions) : obs.extract[i][k] > 0
            /\ obs.merge[i] > 0
            /\ ~obs.toolFailed[i] => obs.index[i] > 0

\* C4: in the first run on an empty working directory with force false, a
\* driver that has gone through every region leaves a manifest that lists the
\* output path of every region, once per distinct region, in list order.
C4_ManifestListsEveryRegion ==
    \A i \in AllItems :
        (run = 1 /\ ~args.force /\ DriverEnded(i)) =>
            ManifestEntries(Items(args)[i]) = Dedup(RegionPaths(Items(args)[i]))

\* C5: every path create_bamlist was called for is an entry of its manifest
\* exactly once, however often it was appended.
C5_AppendedOnce ==
    \A path \in obs.appended :
        /\ BamlistPath(path) \in DOMAIN texts
        /\ Count(FileLines(texts[BamlistPath(path)]), path \o <<"\n">>) = 1

\* C5 witness: with force true a driver went through a region list that
\* names one region twice, so create_bamlist ran twice for one path.
C5_Witness ==
    /\ args.force
    /\ \E i \in AllItems :
         /\ DriverEnded(i)
         /\ Len(Regions) = 2
         /\ Regions[1] = Regions[2]
         /\ obs.extract[i][1] > 0
         /\ obs.extract[i][2] > 0
         /\ OutbamOf(Items(args)[i], Regions[1]) \in obs.appended

\* the positions of the Region List the extraction tool was invoked for, for
\* one input file, in order of invocation (repeats of one position merged)
StrictlyIncreasing(s) == \A m, n \in 1..Len(s) : m < n => s[m] < s[n]

\* C6: within one input file's task the extraction tool is invoked along the
\* Region List: all attempts for a position, retries included, come before
\* the first attempt for a later position, and no position is attempted again
\* after a later one was started.
C6_RegionOrder ==
    \A i \in AllItems : StrictlyIncreasing(obs.invoked[i])

\* C6 witness: the tool was invoked for the first then the second position,
\* with a failed attempt retried.
C6_Witness ==
    \E i \in AllItems : obs.invoked[i] = <<1, 2>> /\ obs.toolFailed[i]

\* C7: in batch mode, after the batch has ended with the task of a file A
\* ended by an exception, every other file B none of whose tool calls failed
\* has had its task run to completion, with its merged artifact produced.
C7_FailureIsolated ==
    (BatchMode /\ main.pc = "exit") =>
        \A a, b \in AllItems :
            (a # b /\ obs.finished[a] \notin {"no", "ok"} /\ ~obs.toolFailed[b]) =>
                /\ obs.finished[b] = "ok"
                /\ IsFile(MergedOf(Items(args)[b]))

\* C8: when extract1kgBAM_batch has read the list, called pool.map and
\* returned to its caller (or raised into it), exactly one extract1kgBAM task
\* was started for each file of the list and each of them has ended.
C8_OneTaskPerFile ==
    (BatchMode /\ main.pc \in {"post", "exit"} /\ pool # NoPool) =>
        \A i \in AllItems : obs.started[i] = 1 /\ obs.finished[i] # "no"

\* C9: every invocation of extractbam ends, by success or by a failure
\* raised to the driver, so every driver task terminates and with it the
\* run: main reaches its end.
C9_TaskTerminates == <>(main.pc = "exit")

\* C10: a command line with both --bam and --bamlist, or with neither, is a
\* usage error that does nothing: no directory and no log file is created,
\* no file of the current directory is deleted, no driver is started.
C10_UsageErrorDoesNothing ==
    (run = 1 /\ ~SingleMode /\ ~BatchMode) =>
        /\ dirs = {}
        /\ DOMAIN logs = {}
        /\ cwd = CwdInit
        /\ main.exit \in {"none", "usage"}
        /\ \A p \in Procs : proc[p].pc = "idle"

\* the call of mergebam of line 161 has been reached for item i
MergeReached(i) ==
    \/ DriverEnded(i)
    \/ \E p \in Procs : proc[p].pc \in MergePcs /\ CurItem(p) = i

\* C11: the call of mergebam is reached, and the merge or the index tool
\* invoked, for an input file only after extractbam has returned (artifact
\* produced, or skipped) for every position of the Region List; a driver
\* that an exception left before the end of the extraction has not reached
\* the call and has invoked neither tool.
C11_MergeAfterAllRegions ==
    \A i \in AllItems :
        /\ (MergeReached(i) \/ obs.merge[i] > 0 \/ obs.index[i] > 0) =>
              \A k \in 1..Len(Regions) : obs.returned[i][k] \in {"extracted", "skipped"}
        /\ obs.finished[i] = "OSError" =>
              /\ obs.merge[i] = 0
              /\ obs.index[i] = 0
              /\ \E k \in 1..Len(Regions) : obs.returned[i][k] = "no"

\* C11 witness: a driver came to the call of mergebam after two regions, one
\* of them extracted at a retried attempt.
C11_Witness ==
    \E i \in AllItems :
        /\ obs.finished[i] = "TypeError"
        /\ Len(Regions) = 2
        /\ obs.toolFailed[i]
        /\ \A k \in 1..Len(Regions) : obs.returned[i][k] = "extracted"

\* C12: in batch mode every line of the per-file log of an input file was
\* logged by the driver of that input file (a file whose log this is).
C12_LogOwnLinesOnly ==
    BatchMode =>
        \A i \in AllItems :
            LogOf(Items(args)[i]) \in DOMAIN logs =>
                \A reading \in Readings(logs[LogOf(Items(args)[i])]) :
                \A line \in Range(reading) :
                    LogOf(line.by) = LogOf(Items(args)[i])

\* a process is inside the driver of an input file, past the derivation of
\* its working subtree
InDriver(p) == proc[p].pc \notin {"idle", "setup"}

\* C13: two drivers that run at the same time for different input files of
\* the list use different working subtrees, hence different manifests, and
\* never have the same per-region artifact path in hand.
C13_DistinctSubtrees ==
    \A p, q \in Procs :
        (p # q /\ InDriver(p) /\ InDriver(q) /\ proc[p].bam # proc[q].bam) =>
            /\ proc[p].outdir # proc[q].outdir
            /\ MergeList(proc[p].outdir) # MergeList(proc[q].outdir)
            /\ proc[p].outbam # <<>> => proc[p].outbam # proc[q].outbam

\* C14: when the creation of the subbam directory has failed with an error
\* other than "already exists" for an input file, the driver of that file
\* has ended with that error (OSError), and the extraction tool was not
\* invoked for the region in hand; an existing subbam directory is no
\* failure.
C14_SubbamFailureFatal ==
    \A i \in AllItems :
        obs.subbamFailed[i] =>
            /\ obs.finished[i] = "OSError"
            /\ \A k \in 1..Len(Regions) : obs.extract[i][k] = 0

\* s is an initial part of t
IsPrefixOf(s, t) == Len(s) <= Len(t) /\ SubSeq(t, 1, Len(s)) = s

\* C16: no step removes a manifest or rewrites an entry of it: after every
\* step each manifest begins with the text it had before the step, and a
\* create_bamlist for a path that is an entry of the manifest changes
\* nothing.
C16_ManifestOnlyGrows ==
    [][ /\ \A path \in DOMAIN texts :
             /\ path \in DOMAIN texts'
             /\ IsPrefixOf(texts[path], texts'[path])
        /\ \A p \in Procs :
             ( /\ proc[p].pc = "bl_write"
               /\ proc'[p] # proc[p]
               /\ BamlistPath(proc[p].outbam) \in DOMAIN texts
               /\ proc[p].outbam \in
                    Range(StripLines(texts[BamlistPath(proc[p].outbam)])) )
             => texts' = texts ]_vars

RECURSIVE NonEmptyLines(_)
\* the non-empty lines of a text, in order, without their newline
NonEmptyLines(text) ==
    IF text = <<>> THEN <<>>
    ELSE LET nl == CHOOSE k \in 1..(Len(text) + 1) :
                      /\ k = Len(text) + 1 \/ text[k] = "\n"
                      /\ \A j \in 1..(k - 1) : text[j] # "\n"
             first == SubSeq(text, 1, nl - 1)
             rest == NonEmptyLines(SubSeq(text, nl + 1, Len(text)))
         IN IF first = <<>> THEN rest ELSE <<first>> \o rest

\* C17: the regions a driver has loaded are exactly the non-empty lines of
\* the target file, in file order, without their newline; no extraction is
\* invoked for an empty region.
C17_RegionsAreNonEmptyLines ==
    \A p \in Procs :
        InDriver(p) /\ proc[p].pc # "load" =>
            /\ proc[p].regions = NonEmptyLines(args.target)
            /\ proc[p].pc = "tool" => CurRegion(p) # <<>>

\* name without the suffix suf when it ends with it, else name
RemoveSuffix(name, suf) ==
    IF Len(name) >= Len(suf) /\ SubSeq(name, Len(name) - Len(suf) + 1, Len(name)) = suf
    THEN SubSeq(name, 1, Len(name) - Len(suf))
    ELSE name

\* C18: the Prefix a driver works with is the base name of its input file
\* without the suffix ".bam", and the working subtree, the per-file log, the
\* per-region artifact in hand and the merged artifact are named with it.
C18_PrefixIsBaseNameWithoutSuffix ==
    \A p \in Procs :
        InDriver(p) =>
            LET pre == RemoveSuffix(Basename(proc[p].bam), <<".", "b", "a", "m">>)
            IN /\ proc[p].pre = pre
               /\ proc[p].outdir = PathJoin(WorkDir, pre)
               /\ LogPath(proc[p].outdir, proc[p].pre) = LogPath(PathJoin(WorkDir, pre), pre)
               /\ proc[p].handlers[Len(proc[p].handlers)].path = LogPath(PathJoin(WorkDir, pre), pre)
               /\ proc[p].outbam # <<>> =>
                    proc[p].outbam =
                      Outbam(OutdirSub(PathJoin(WorkDir, pre)), CurRegion(p), pre)
               /\ MergedBam(proc[p].outdir, proc[p].pre) = MergedBam(PathJoin(WorkDir, pre), pre)

\* the entries of every manifest on disk
AllEntries == UNION { Range(StripLines(texts[path])) : path \in DOMAIN texts }

\* C19: every entry of a manifest is the output path of an invocation of the
\* extraction tool that exited zero, and the file at that path is an
\* artifact a successful invocation wrote.
C19_EntriesAreSuccessfulArtifacts ==
    \A entry \in AllEntries :
        /\ entry \in obs.succeeded
        /\ entry \in DOMAIN bams
        /\ bams[entry].complete

\* C19 as amended: every entry of a manifest is the output path of an
\* invocation of the extraction tool that exited zero before the entry was
\* written, and a file is at that path; a path whose attempts all failed,
\* or that was only skipped, is no entry.
C19_EntriesWereExtracted ==
    /\ \A entry \in AllEntries : entry \in obs.succeeded /\ entry \in DOMAIN bams
    /\ obs.appended \subseteq obs.succeeded

\* C19 witness: in one driver run the first region's only attempt failed and
\* left a file, the retry skipped it, and the second region was extracted:
\* the manifest lists the second region's path alone.
C19_Witness ==
    \E i \in AllItems :
        /\ Len(Regions) = 2
        /\ obs.toolFailed[i]
        /\ obs.returned[i] = <<"skipped", "extracted">>
        /\ ManifestEntries(Items(args)[i]) = <<OutbamOf(Items(args)[i], Regions[2])>>
        /\ IsFile(OutbamOf(Items(args)[i], Regions[1]))

====
